---- MODULE Spec2Model ----
(***************************************************************************)
(* Page-aware sentence extraction of utils/pdf_extractor.py.               *)
(*                                                                         *)
(* A Python str is modelled as a sequence of one-character strings.  The   *)
(* non-ASCII characters the source names are written by their code point:  *)
(* "U2026" is the horizontal ellipsis, "U3002" the ideographic full stop,  *)
(* "UFF1F" and "UFF01" the fullwidth question and exclamation marks,       *)
(* "UD45C" the Hangul syllable of the Korean caption pattern.              *)
(* Ratios (floats in the source) are integers in percent; every comparison *)
(* of the source is cross-multiplied so that it stays exact.               *)
(***************************************************************************)
EXTENDS Integers, Sequences, FiniteSets, TLC

(***************************************************************************)
(* Bounds of the model: the pages of a document, and the characters that   *)
(* the pages of a small document hold in total.                            *)
(***************************************************************************)
MaxPages == 3
MaxChars == 3

(***************************************************************************)
(* Characters and the str helpers the source uses.                         *)
(***************************************************************************)
Whitespace == {" ", "\t", "\n", "\r", "\f"}
LineBreaks == {"\n", "\r", "\f"}
Terminals == {".", "!", "?", "U2026", "U3002", "UFF1F", "UFF01"}
Digits == {"0", "1", "2", "3", "4", "5", "6", "7", "8", "9"}

SetMin(S) == CHOOSE x \in S : \A y \in S : x <= y
SetMax(S) == CHOOSE x \in S : \A y \in S : y <= x
Max0(a, b) == IF a >= b THEN a ELSE b

RECURSIVE Concat(_)
Concat(ss) == IF ss = <<>> THEN <<>> ELSE Head(ss) \o Concat(Tail(ss))

\* str.strip(): the string without leading and trailing whitespace
strip(s) ==
  LET idx == {i \in 1..Len(s) : s[i] \notin Whitespace}
  IN IF idx = {} THEN <<>> ELSE SubSeq(s, SetMin(idx), SetMax(idx))

\* str.startswith(prefix)
startswith(s, prefix) ==
  /\ Len(prefix) <= Len(s)
  /\ SubSeq(s, 1, Len(prefix)) = prefix

\* re.search(r"[.!?...]$", s) on a string without a trailing line break
EndsWithTerminal(s) == s # <<>> /\ s[Len(s)] \in Terminals

\* str.splitlines()
RECURSIVE splitlines(_)
splitlines(s) ==
  IF s = <<>> THEN <<>>
  ELSE LET brk == {i \in 1..Len(s) : s[i] \in LineBreaks}
       IN IF brk = {} THEN <<s>>
          ELSE LET k == SetMin(brk)
               IN <<SubSeq(s, 1, k - 1)>> \o splitlines(SubSeq(s, k + 1, Len(s)))

\* "\n".join(lines)
RECURSIVE JoinLines(_)
JoinLines(lines) ==
  IF lines = <<>> THEN <<>>
  ELSE IF Len(lines) = 1 THEN lines[1]
  ELSE lines[1] \o <<"\n">> \o JoinLines(Tail(lines))

(***************************************************************************)
(* normalize_line_breaks                                                   *)
(***************************************************************************)
RECURSIVE NormalizeFrom(_, _, _)
NormalizeFrom(lines, i, normalized) ==
  IF i > Len(lines) THEN normalized
  ELSE LET line == strip(lines[i])
       IN IF line = <<>> THEN NormalizeFrom(lines, i + 1, normalized)
          ELSE IF line[Len(line)] = "-"
            THEN NormalizeFrom(lines, i + 1, normalized \o SubSeq(line, 1, Len(line) - 1))
          ELSE IF ~EndsWithTerminal(line)
            THEN NormalizeFrom(lines, i + 1, normalized \o line \o <<" ">>)
          ELSE NormalizeFrom(lines, i + 1, normalized \o line \o <<"\n">>)

\* normalize_line_breaks without splitlines: the text taken as one line
normalize_line_breaks_OneLine(raw_page_text) ==
  NormalizeFrom(<<raw_page_text>>, 1, <<>>)

normalize_line_breaks(raw_page_text) ==
  NormalizeFrom(splitlines(raw_page_text), 1, <<>>)

(***************************************************************************)
(* split_into_sentences                                                    *)
(***************************************************************************)
\* InSeparator without the lookbehind: every whitespace separates
InSeparator_NoLookbehind(text, i) == text[i] \in Whitespace

\* position i lies in a match of (?<=[terminal])\s+ : a whitespace run whose
\* first character directly follows a terminal character
InSeparator(text, i) ==
  /\ text[i] \in Whitespace
  /\ \E k \in 2..i :
       /\ text[k - 1] \in Terminals
       /\ \A j \in k..i : text[j] \in Whitespace

\* the pieces re.split leaves, stripped, as <<first, last>> positions of text,
\* in order; pieces that are empty after strip() are dropped
RECURSIVE SpansFrom(_, _)
SpansFrom(text, i) ==
  IF i > Len(text) THEN <<>>
  ELSE IF InSeparator(text, i) THEN SpansFrom(text, i + 1)
  ELSE LET stops == {j \in i..Len(text) : InSeparator(text, j)}
           hi == IF stops = {} THEN Len(text) ELSE SetMin(stops) - 1
           idx == {j \in i..hi : text[j] \notin Whitespace}
       IN (IF idx = {} THEN <<>> ELSE << <<SetMin(idx), SetMax(idx)>> >>)
            \o SpansFrom(text, hi + 1)

SentenceSpans(text) == SpansFrom(text, 1)

split_into_sentences(text) ==
  LET spans == SentenceSpans(text)
  IN [k \in 1..Len(spans) |-> SubSeq(text, spans[k][1], spans[k][2])]

(***************************************************************************)
(* Pages.  A page is what the source reads of a fitz.Page:                 *)
(*   text    page.get_text("text")                                         *)
(*   images  len(page.get_images(full=True))                               *)
(*   width, height   page.rect (and page_dict['height'])                   *)
(*   blocks  page.get_text("dict")['blocks'], each block a record          *)
(*           [has_bbox, bbox = <<x0, y0, x1, y1>>, type, lines], lines a   *)
(*           sequence of lines, a line a sequence of span texts; type is   *)
(*           -1 where the block has no 'type' key.                         *)
(***************************************************************************)
None == 0          \* carryover_page = None; page numbers are 1-based

\* remove_header_footer_blocks that keeps the blocks without 'bbox'
remove_header_footer_blocks_KeepsNoBbox(page, header_height_ratio, footer_height_ratio) ==
  LET Keep(blk) ==
        \/ ~blk.has_bbox
        \/ /\ ~(100 * blk.bbox[4] < page.height * header_height_ratio)
           /\ ~(100 * blk.bbox[2] > page.height * (100 - footer_height_ratio))
  IN SelectSeq(page.blocks, Keep)

\* remove_header_footer_blocks; the ratios are in percent
remove_header_footer_blocks(page, header_height_ratio, footer_height_ratio) ==
  LET Keep(blk) ==
        /\ blk.has_bbox
        /\ ~(100 * blk.bbox[4] < page.height * header_height_ratio)
        /\ ~(100 * blk.bbox[2] > page.height * (100 - footer_height_ratio))
  IN SelectSeq(page.blocks, Keep)

\* text_area of compute_text_block_area_ratio over the retained blocks
RECURSIVE TextArea(_)
TextArea(blocks) ==
  IF blocks = <<>> THEN 0
  ELSE LET blk == Head(blocks)
           w == Max0(0, blk.bbox[3] - blk.bbox[1])
           h == Max0(0, blk.bbox[4] - blk.bbox[2])
       IN (IF blk.type = 0 THEN w * h ELSE 0) + TextArea(Tail(blocks))

\* compute_text_block_area_ratio, as the fraction <<numerator, denominator>>
compute_text_block_area_ratio(page, header_height_ratio, footer_height_ratio) ==
  LET page_area == page.width * page.height
  IN IF page_area <= 0 THEN <<0, 1>>
     ELSE <<TextArea(remove_header_footer_blocks(page, header_height_ratio,
                                                 footer_height_ratio)),
            page_area>>

\* ratio < pct / 100 for a fraction ratio with a positive denominator
RatioBelow(ratio, pct) == 100 * ratio[1] < pct * ratio[2]

(***************************************************************************)
(* The caption patterns of should_skip_page.                               *)
(***************************************************************************)
Lower(c) ==
  CASE c = "T" -> "t" [] c = "A" -> "a" [] c = "B" -> "b" [] c = "L" -> "l"
    [] c = "E" -> "e" [] c = "F" -> "f" [] c = "I" -> "i" [] c = "G" -> "g"
    [] c = "U" -> "u" [] c = "R" -> "r" [] OTHER -> c

KwKo == <<"UD45C">>
KwTable == <<"t", "a", "b", "l", "e">>
KwFigure == <<"f", "i", "g", "u", "r", "e">>

\* the keyword kw is at position i of text (ignorecase: compared in lower case)
KeywordAt(text, i, kw, ignorecase) ==
  /\ i + Len(kw) - 1 <= Len(text)
  /\ \A k \in 1..Len(kw) :
       (IF ignorecase THEN Lower(text[i + k - 1]) ELSE text[i + k - 1]) = kw[k]

\* first position at or after i that is not whitespace (\s*)
RECURSIVE SkipSpaces(_, _)
SkipSpaces(text, i) ==
  IF i <= Len(text) /\ text[i] \in Whitespace THEN SkipSpaces(text, i + 1) ELSE i

\* first position at or after i that is not a digit (\d+ is greedy)
RECURSIVE SkipDigits(_, _)
SkipDigits(text, i) ==
  IF i <= Len(text) /\ text[i] \in Digits THEN SkipDigits(text, i + 1) ELSE i

\* the position after the match of kw\s*\d+ that starts at i, or 0 if none does
MatchEnd(text, i, kw, ignorecase) ==
  IF ~KeywordAt(text, i, kw, ignorecase) THEN 0
  ELSE LET d == SkipSpaces(text, i + Len(kw))
           e == SkipDigits(text, d)
       IN IF e > d THEN e ELSE 0

\* len(re.findall(...)) for a pattern (kw1|kw2|...)\s*\d+ : the matches are
\* taken left to right and do not overlap
RECURSIVE CountFrom(_, _, _, _)
CountFrom(text, i, kws, ignorecase) ==
  IF i > Len(text) THEN 0
  ELSE LET ends == {MatchEnd(text, i, kws[k], ignorecase) : k \in 1..Len(kws)} \ {0}
       IN IF ends = {} THEN CountFrom(text, i + 1, kws, ignorecase)
          ELSE 1 + CountFrom(text, SetMin(ends), kws, ignorecase)

cnt_ko(raw_text) == CountFrom(raw_text, 1, <<KwKo>>, FALSE)
cnt_en(raw_text) == CountFrom(raw_text, 1, <<KwTable, KwFigure>>, TRUE)

(***************************************************************************)
(* should_skip_page                                                        *)
(***************************************************************************)
\* skip_return without the test of the force-skip set
skip_return_NoForceSkip(page, page_num_1based, skip_pages, min_text_len, table_threshold, skip_if_image, min_text_ratio, header_height_ratio, footer_height_ratio) ==
  IF Len(strip(page.text)) < min_text_len THEN 2
  ELSE IF cnt_ko(page.text) + cnt_en(page.text) >= table_threshold THEN 3
  ELSE IF skip_if_image /\ page.images > 0 THEN 4
  ELSE IF RatioBelow(compute_text_block_area_ratio(page, header_height_ratio,
                                                   footer_height_ratio),
                     min_text_ratio) THEN 5
  ELSE 0

\* skip_return with > for >= in the caption check
skip_return_CaptionsAbove(page, page_num_1based, skip_pages, min_text_len, table_threshold, skip_if_image, min_text_ratio, header_height_ratio, footer_height_ratio) ==
  IF page_num_1based \in skip_pages THEN 1
  ELSE IF Len(strip(page.text)) < min_text_len THEN 2
  ELSE IF cnt_ko(page.text) + cnt_en(page.text) > table_threshold THEN 3
  ELSE IF skip_if_image /\ page.images > 0 THEN 4
  ELSE IF RatioBelow(compute_text_block_area_ratio(page, header_height_ratio,
                                                   footer_height_ratio),
                     min_text_ratio) THEN 5
  ELSE 0

\* skip_return with the caption check made only for a positive threshold
skip_return_PositiveThreshold(page, page_num_1based, skip_pages, min_text_len, table_threshold, skip_if_image, min_text_ratio, header_height_ratio, footer_height_ratio) ==
  IF page_num_1based \in skip_pages THEN 1
  ELSE IF Len(strip(page.text)) < min_text_len THEN 2
  ELSE IF table_threshold > 0
            /\ cnt_ko(page.text) + cnt_en(page.text) >= table_threshold THEN 3
  ELSE IF skip_if_image /\ page.images > 0 THEN 4
  ELSE IF RatioBelow(compute_text_block_area_ratio(page, header_height_ratio,
                                                   footer_height_ratio),
                     min_text_ratio) THEN 5
  ELSE 0

\* the return statement the call leaves by: k for the `return True` of check k,
\* 0 for the final `return False`
skip_return(page, page_num_1based, skip_pages, min_text_len, table_threshold, skip_if_image, min_text_ratio, header_height_ratio, footer_height_ratio) ==
  IF page_num_1based \in skip_pages THEN 1
  ELSE IF Len(strip(page.text)) < min_text_len THEN 2
  ELSE IF cnt_ko(page.text) + cnt_en(page.text) >= table_threshold THEN 3
  ELSE IF skip_if_image /\ page.images > 0 THEN 4
  ELSE IF RatioBelow(compute_text_block_area_ratio(page, header_height_ratio,
                                                   footer_height_ratio),
                     min_text_ratio) THEN 5
  ELSE 0

should_skip_page(page, page_num_1based, skip_pages, min_text_len, table_threshold, skip_if_image, min_text_ratio, header_height_ratio, footer_height_ratio) ==
  skip_return(page, page_num_1based, skip_pages, min_text_len, table_threshold,
              skip_if_image, min_text_ratio, header_height_ratio,
              footer_height_ratio) # 0

(***************************************************************************)
(* extract_sentences_with_page: the steps of one iteration of the page     *)
(* loop, as operators of the values the source has at that point.          *)
(***************************************************************************)
\* step 2: the page's text, from the retained text blocks or from the page
RECURSIVE SpanTexts(_)
SpanTexts(spans) ==
  IF spans = <<>> THEN <<>>
  ELSE LET t == strip(Head(spans))
       IN (IF t # <<>> THEN <<t>> ELSE <<>>) \o SpanTexts(Tail(spans))

RECURSIVE BlockLines(_)
BlockLines(blocks) ==
  IF blocks = <<>> THEN <<>>
  ELSE LET blk == Head(blocks)
       IN (IF blk.type # 0 THEN <<>> ELSE SpanTexts(Concat(blk.lines)))
            \o BlockLines(Tail(blocks))

raw_page_text(page, remove_header_footer, header_height_ratio, footer_height_ratio) ==
  IF remove_header_footer
  THEN JoinLines(BlockLines(remove_header_footer_blocks(page, header_height_ratio,
                                                        footer_height_ratio)))
  ELSE page.text

\* MergeCarry with the carried piece forgotten
MergeCarry_DropsCarry(carry_fragment, normalized) == normalized

\* step 4: the text handed to split_into_sentences
MergeCarry(carry_fragment, normalized) ==
  IF carry_fragment # <<>> THEN carry_fragment \o <<" ">> \o normalized
  ELSE normalized

\* start_page_for_carry that is the current page also when a piece is consumed
start_page_for_carry_CurrentPage(carry_fragment, carry_page, page_num) == page_num

\* start_page_for_carry without the else branch: carryover_page as it is
start_page_for_carry_NoDefault(carry_fragment, carry_page, page_num) == carry_page

\* step 4: start_page_for_carry
start_page_for_carry(carry_fragment, carry_page, page_num) ==
  IF carry_fragment # <<>> THEN carry_page ELSE page_num

\* step 6: the last piece is carried over when it does not end a sentence
PopsLast(sents) == sents # <<>> /\ ~EndsWithTerminal(sents[Len(sents)])

\* step 7: st_pg of one sentence, with carryover_fragment and carryover_page
\* as step 6 has left them
st_pg(sent, carry_fragment, carry_page, page_num) ==
  IF carry_page # None /\ startswith(sent, carry_fragment)
  THEN carry_page
  ELSE page_num

\* KeptSentences without the removal of the last piece
KeptSentences_KeepsLast(sents) == sents

\* KeptSentences with sents[1:] for sents[:-1]
KeptSentences_DropsFirst(sents) ==
  IF PopsLast(sents) THEN Tail(sents) ELSE sents

\* step 6: sents[:-1] when the last piece is carried over
KeptSentences(sents) ==
  IF PopsLast(sents) THEN SubSeq(sents, 1, Len(sents) - 1) ELSE sents

\* SkipDecision with the text checks reading the text the extraction mode yields
SkipDecision_ExtractedText(page, page_num, c) ==
  should_skip_page([page EXCEPT !.text = raw_page_text(page, c.remove_header_footer,
                                                       c.header_height_ratio,
                                                       c.footer_height_ratio)],
                   page_num, c.skip_pages, c.min_text_len,
                   c.table_threshold, c.skip_if_image, c.min_text_ratio,
                   c.header_height_ratio, c.footer_height_ratio)

\* step 1: the call of should_skip_page in the page loop, with the arguments
\* c of extract_sentences_with_page; the return statement it leaves by
SkipReturn(page, page_num, c) ==
  skip_return(page, page_num, c.skip_pages, c.min_text_len,
              c.table_threshold, c.skip_if_image, c.min_text_ratio,
              c.header_height_ratio, c.footer_height_ratio)

SkipDecision(page, page_num, c) ==
  should_skip_page(page, page_num, c.skip_pages, c.min_text_len,
                   c.table_threshold, c.skip_if_image, c.min_text_ratio,
                   c.header_height_ratio, c.footer_height_ratio)

(***************************************************************************)
(* parse_skip_pages                                                        *)
(***************************************************************************)
\* str.split(sep): the parts between the separators, empty parts included
RECURSIVE split(_, _)
split(s, sep) ==
  LET at == {i \in 1..Len(s) : s[i] = sep}
  IN IF at = {} THEN <<s>>
     ELSE LET k == SetMin(at)
          IN <<SubSeq(s, 1, k - 1)>> \o split(SubSeq(s, k + 1, Len(s)), sep)

\* str.split(sep, maxsplit=1) of a string that holds sep
split_once(s, sep) ==
  LET k == SetMin({i \in 1..Len(s) : s[i] = sep})
  IN <<SubSeq(s, 1, k - 1), SubSeq(s, k + 1, Len(s))>>

DigitSeq == <<"0", "1", "2", "3", "4", "5", "6", "7", "8", "9">>

\* the number a non-empty string of decimal digits denotes
RECURSIVE DecimalValue(_)
DecimalValue(ds) ==
  IF ds = <<>> THEN 0
  ELSE 10 * DecimalValue(SubSeq(ds, 1, Len(ds) - 1))
         + (CHOOSE d \in 0..9 : DigitSeq[d + 1] = ds[Len(ds)])

\* int(s): [ok |-> TRUE, value |-> n], or ok FALSE where int raises
\* ValueError.  int accepts surrounding whitespace and one sign before the
\* digits.
int(s) ==
  LET t == strip(s)
      signed == t # <<>> /\ t[1] \in {"+", "-"}
      ds == IF signed THEN Tail(t) ELSE t
  IN IF ds = <<>> \/ \E i \in 1..Len(ds) : ds[i] \notin Digits
     THEN [ok |-> FALSE, value |-> 0]
     ELSE [ok |-> TRUE,
           value |-> IF signed /\ t[1] = "-" THEN 0 - DecimalValue(ds)
                     ELSE DecimalValue(ds)]

\* PartPages with range(lo_i, hi_i) for range(lo_i, hi_i + 1)
PartPages_RangeWithoutEnd(stripped) ==
  IF stripped = <<>> THEN {}
  ELSE IF \E i \in 1..Len(stripped) : stripped[i] = "-"
    THEN LET lohi == split_once(stripped, "-")
             lo_i == int(strip(lohi[1]))
             hi_i == int(strip(lohi[2]))
         IN IF lo_i.ok /\ hi_i.ok /\ lo_i.value <= hi_i.value
            THEN lo_i.value..(hi_i.value - 1) ELSE {}
  ELSE LET num == int(stripped)
       IN IF num.ok THEN {num.value} ELSE {}

\* one iteration of the loop over parts: what the stripped part adds to skips
PartPages(stripped) ==
  IF stripped = <<>> THEN {}
  ELSE IF \E i \in 1..Len(stripped) : stripped[i] = "-"
    THEN LET lohi == split_once(stripped, "-")
             lo_i == int(strip(lohi[1]))
             hi_i == int(strip(lohi[2]))
         IN IF lo_i.ok /\ hi_i.ok /\ lo_i.value <= hi_i.value
            THEN lo_i.value..hi_i.value ELSE {}
  ELSE LET num == int(stripped)
       IN IF num.ok THEN {num.value} ELSE {}

parse_skip_pages(skip_str) ==
  LET parts == split(skip_str, ",")
  IN UNION {PartPages(strip(parts[k])) : k \in 1..Len(parts)}

(***************************************************************************)
(* Inputs: the documents and configurations the model walks.               *)
(***************************************************************************)
Alphabet == {"a", "b", ".", " "}

Strings(n) == UNION {[1..k -> Alphabet] : k \in 0..n}

\* Documents are drawn in two ways.  A small document has any page texts over
\* Alphabet of at most MaxChars characters in total.  A sample document has
\* its page texts from SampleTexts: line breaks, hyphenation, several
\* sentences on a page, a sentence that starts like the piece left at the end
\* of the page.  Every document may also hold the pages of SpecialPages.
SampleTexts ==
  { <<"b", "\n">>,
    <<"a", "-">>,
    <<"a", "-", "\n", "b", ".">>,
    <<"a", ".", " ", " ", "b">>,
    <<"a", ".", "\n", "b", ".">>,
    <<".", " ", "a">>,
    <<".", " ", "b">>,
    <<"b", ".", " ", "a", ".">>,
    <<".", " ", "a", ".", " ", "a">>,
    <<".", " ", "b", ".", " ", "b">>,
    <<"\n">> }

\* one span per line of the page text
LinesOf(text) == LET ls == splitlines(text) IN [k \in 1..Len(ls) |-> <<ls[k]>>]

TextBlock(bbox, lines) == [has_bbox |-> TRUE, bbox |-> bbox, type |-> 0, lines |-> lines]

\* a page of width 10 and height 100 that shows text, laid out as
\*   body      one text block in the body of the page
\*   header    the text in the header band, a blank text block in the body
\*   sparse    one small text block
\*   image     one text block in the body and an embedded image
\*   bands     the text in the header band and in the footer band only
\*   nobbox    a text block in the body and a block without 'bbox' and 'type'
\*   zeroarea  the body layout on a page of width 0
Layouts == {"body", "header", "sparse", "image"}
AllLayouts == Layouts \cup {"bands", "nobbox", "zeroarea"}

MkPage(text, layout) ==
  [text |-> text,
   width |-> IF layout = "zeroarea" THEN 0 ELSE 10,
   height |-> 100,
   images |-> IF layout = "image" THEN 1 ELSE 0,
   blocks |->
     CASE layout \in {"body", "zeroarea"} ->
            <<TextBlock(<<0, 10, 10, 90>>, LinesOf(text))>>
       [] layout = "header" -> <<TextBlock(<<0, 0, 10, 4>>, LinesOf(text)),
                                 TextBlock(<<0, 10, 10, 90>>, << <<<<" ">>>> >>)>>
       [] layout = "sparse" -> <<TextBlock(<<0, 10, 1, 11>>, LinesOf(text))>>
       [] layout = "image" ->
            <<TextBlock(<<0, 10, 10, 50>>, LinesOf(text)),
              [has_bbox |-> TRUE, bbox |-> <<0, 50, 10, 90>>, type |-> 1,
               lines |-> <<>>]>>
       [] layout = "bands" -> <<TextBlock(<<0, 0, 10, 4>>, LinesOf(text)),
                                TextBlock(<<0, 96, 10, 100>>, LinesOf(text))>>
       [] layout = "nobbox" ->
            <<[has_bbox |-> FALSE, bbox |-> <<0, 0, 0, 0>>, type |-> -1,
               lines |-> <<>>],
              TextBlock(<<0, 10, 10, 14>>, LinesOf(text))>>]


\* the arguments of extract_sentences_with_page; 5 percent are the defaults of
\* the three ratios
Configs ==
  [skip_pages : SUBSET (1..MaxPages),
   min_text_len : {1},
   table_threshold : {0, 3},
   skip_if_image : {TRUE},
   min_text_ratio : {5},
   remove_header_footer : BOOLEAN,
   header_height_ratio : {5},
   footer_height_ratio : {5}]

(***************************************************************************)
(* State of one run of extract_sentences_with_page.                        *)
(***************************************************************************)
VARIABLES
  cfg,                 \* the arguments of the call
  total_pages,         \* doc.page_count
  pc,                  \* "walk": in the page loop, "done": returned
  page_index,          \* number of pages the loop has processed
  carryover_fragment,  \* the pending piece, <<>> if none
  carryover_page,      \* the page recorded for it, None if none
  records,             \* the sentences written so far: [page_num, sentence]
  \* history, read by the properties only
  rec_prov,            \* per record: at (page whose step wrote it), first (page
                       \* of its first character), srcs (pages its text is from),
                       \* from_carry (it begins with the piece carried in),
                       \* carried_from (first page of the piece carried into
                       \* that step, None if there was none)
  frag_prov,           \* first and srcs of the pending piece
  doc_norm,            \* normalized text of each included page, in order
  skipped,             \* pages the loop skipped
  skipped_alt,         \* pages skipped if remove_header_footer were negated
  last,                \* what the latest step did
  output,              \* the sentences the call has written when it returns
  skip_call,           \* a call of should_skip_page on its own, and its result
  mode,                \* how the document is drawn: "small" or "sample"
  budget,              \* characters the remaining pages may hold ("small")
  run,                 \* 0: the only run on the document; 1, 2: the first and
                       \* the second of two runs on the same document
  doc,                 \* the pages the first of two runs has loaded, in order
  first_output,        \* what the first of two runs has written
  fn_call              \* a call of one of the helper functions on its own

vars == <<cfg, total_pages, pc, page_index, carryover_fragment, carryover_page,
          records, rec_prov, frag_prov, doc_norm, skipped, skipped_alt, last,
          output, skip_call, mode, budget, run, doc, first_output, fn_call>>

\* pages that the filter skips for what they show, and a page whose text lies
\* in the header band
SpecialPages ==
  {MkPage(<<"a", ".">>, l) : l \in {"header", "sparse", "image"}}
    \cup {MkPage(<<"UD45C", " ", "1", " ", "UD45C", "2", " ", "T", "a", "b", "l", "e", " ", "3">>, "body")}

\* the pages doc.load_page may return next
Pages ==
  IF run = 2 THEN {doc[page_index + 1]}
  ELSE {MkPage(t, "body") : t \in (IF mode = "small" THEN Strings(budget)
                                   ELSE SampleTexts)}
         \cup SpecialPages

\* the characters an included page takes from the budget
Cost(page) == IF mode = "small" /\ page \notin SpecialPages THEN Len(page.text) ELSE 0

NoProv == [first |-> None, srcs |-> {}]
NoCall == [called |-> FALSE, page |-> <<>>, page_num |-> 0, check |-> 0,
           result |-> FALSE]
NoStep == [kind |-> "none", page_num |-> 0, check |-> 0, consumed |-> FALSE,
           merged |-> <<>>]
\* result is the str, list or float returned, pages the set returned
NoFn == [fn |-> "none", arg |-> <<>>, result |-> <<>>, pages |-> {}]

\* doc after the loop has loaded page: kept by the first of two runs
Loaded(page) == IF run = 1 THEN Append(doc, page) ELSE doc

Init ==
  /\ cfg \in Configs
  /\ total_pages \in 1..MaxPages
  /\ pc = "walk"
  /\ page_index = 0
  /\ carryover_fragment = <<>>
  /\ carryover_page = None
  /\ records = <<>>
  /\ rec_prov = <<>>
  /\ frag_prov = NoProv
  /\ doc_norm = <<>>
  /\ skipped = {}
  /\ skipped_alt = {}
  /\ last = NoStep
  /\ output = <<>>
  /\ skip_call = NoCall
  /\ mode \in {"small", "sample"}
  /\ budget = IF mode = "small" THEN MaxChars ELSE 0
  /\ run = 0
  /\ doc = <<>>
  /\ first_output = <<>>
  /\ fn_call = NoFn

FlipMode(c) == [c EXCEPT !.remove_header_footer = ~c.remove_header_footer]

\* SkipPage with the pending piece closed by the skipped page
SkipPage_ClearsCarry ==
  /\ pc = "walk"
  /\ page_index < total_pages
  /\ \E page \in Pages :
       LET page_num == page_index + 1 IN
       /\ SkipDecision(page, page_num, cfg)
       /\ page_index' = page_index + 1
       /\ carryover_fragment' = <<>>
       /\ carryover_page' = None
       /\ frag_prov' = NoProv
       /\ skipped' = skipped \cup {page_num}
       /\ skipped_alt' = IF SkipDecision(page, page_num, FlipMode(cfg))
                         THEN skipped_alt \cup {page_num} ELSE skipped_alt
       /\ last' = [NoStep EXCEPT !.kind = "skip", !.page_num = page_num,
                                  !.check = SkipReturn(page, page_num, cfg)]
       /\ doc' = Loaded(page)
       /\ UNCHANGED <<cfg, total_pages, pc, records, rec_prov, doc_norm, output,
                      skip_call, mode, budget, run, first_output, fn_call>>

\* the loop reaches `continue`: should_skip_page returned True
SkipPage ==
  /\ pc = "walk"
  /\ page_index < total_pages
  /\ \E page \in Pages :
       LET page_num == page_index + 1 IN
       /\ SkipDecision(page, page_num, cfg)
       /\ page_index' = page_index + 1
       /\ skipped' = skipped \cup {page_num}
       /\ skipped_alt' = IF SkipDecision(page, page_num, FlipMode(cfg))
                         THEN skipped_alt \cup {page_num} ELSE skipped_alt
       /\ last' = [NoStep EXCEPT !.kind = "skip", !.page_num = page_num,
                                  !.check = SkipReturn(page, page_num, cfg)]
       /\ doc' = Loaded(page)
       /\ UNCHANGED <<cfg, total_pages, pc, carryover_fragment, carryover_page,
                      records, rec_prov, frag_prov, doc_norm, output, skip_call,
                      mode, budget, run, first_output, fn_call>>

\* the loop body after the skip test, steps 2 to 7
IncludePage ==
  /\ pc = "walk"
  /\ page_index < total_pages
  /\ \E page \in Pages :
       LET page_num == page_index + 1
           normalized == normalize_line_breaks(
                           raw_page_text(page, cfg.remove_header_footer,
                                         cfg.header_height_ratio,
                                         cfg.footer_height_ratio))
           consumed == carryover_fragment # <<>>
           merged == MergeCarry(carryover_fragment, normalized)
           start_page == start_page_for_carry(carryover_fragment, carryover_page,
                                              page_num)
           spans == SentenceSpans(merged)
           sents == split_into_sentences(merged)
           pop == PopsLast(sents)
           kept == KeptSentences(sents)
           new_fragment == IF pop THEN sents[Len(sents)] ELSE <<>>
           new_page == IF pop THEN start_page ELSE None
           FromCarry(k) == consumed /\ spans[k][1] <= Len(carryover_fragment)
           Prov(k) ==
             [first |-> IF FromCarry(k) THEN frag_prov.first ELSE page_num,
              srcs |-> (IF FromCarry(k) THEN frag_prov.srcs ELSE {})
                         \cup (IF ~consumed \/ spans[k][2] > Len(carryover_fragment)
                               THEN {page_num} ELSE {})]
       IN
       /\ ~SkipDecision(page, page_num, cfg)
       /\ page_index' = page_index + 1
       /\ carryover_fragment' = new_fragment
       /\ carryover_page' = new_page
       /\ records' = records \o
            [k \in 1..Len(kept) |->
               [page_num |-> st_pg(kept[k], new_fragment, new_page, page_num),
                sentence |-> kept[k]]]
       /\ rec_prov' = rec_prov \o
            [k \in 1..Len(kept) |->
               [at |-> page_num, first |-> Prov(k).first, srcs |-> Prov(k).srcs,
                from_carry |-> FromCarry(k),
                carried_from |-> IF consumed THEN frag_prov.first ELSE None]]
       /\ frag_prov' = IF pop THEN Prov(Len(sents)) ELSE NoProv
       /\ doc_norm' = Append(doc_norm, normalized)
       /\ skipped_alt' = IF SkipDecision(page, page_num, FlipMode(cfg))
                         THEN skipped_alt \cup {page_num} ELSE skipped_alt
       /\ last' = [kind |-> "include", page_num |-> page_num, check |-> 0,
                   consumed |-> consumed, merged |-> merged]
       /\ budget' = budget - Cost(page)
       /\ doc' = Loaded(page)
       /\ UNCHANGED <<cfg, total_pages, pc, skipped, output, skip_call, mode, run,
                      first_output, fn_call>>

\* Finish with the pending piece written as a last sentence
Finish_FlushesCarry ==
  /\ pc = "walk"
  /\ page_index = total_pages
  /\ pc' = "done"
  /\ output' = IF carryover_fragment = <<>> THEN records
                ELSE Append(records, [page_num |-> carryover_page,
                                      sentence |-> carryover_fragment])
  /\ UNCHANGED <<cfg, total_pages, page_index, carryover_fragment, carryover_page,
                 records, rec_prov, frag_prov, doc_norm, skipped, skipped_alt, last,
                 skip_call, mode, budget, run, doc, first_output, fn_call>>

\* the loop is over: doc.close() and the return; a piece still pending is
\* written nowhere
Finish ==
  /\ pc = "walk"
  /\ page_index = total_pages
  /\ pc' = "done"
  /\ output' = records
  /\ UNCHANGED <<cfg, total_pages, page_index, carryover_fragment, carryover_page,
                 records, rec_prov, frag_prov, doc_norm, skipped, skipped_alt, last,
                 skip_call, mode, budget, run, doc, first_output, fn_call>>

Next == SkipPage \/ IncludePage \/ Finish

Spec == Init /\ [][Next]_vars

(***************************************************************************)
(* Two runs of extract_sentences_with_page on the same document with the   *)
(* same arguments: the second call starts when the first has returned.     *)
(***************************************************************************)
\* the arguments of the two calls
TwiceConfigs ==
  {c \in Configs : c.skip_pages \in {{}, {2}} /\ c.table_threshold = 3}

\* the state keeps the pages the first run has loaded, so the documents are
\* sample documents, one page shorter than those of a single run
InitTwice ==
  /\ cfg \in TwiceConfigs
  /\ total_pages \in 1..(MaxPages - 1)
  /\ pc = "walk"
  /\ page_index = 0
  /\ carryover_fragment = <<>>
  /\ carryover_page = None
  /\ records = <<>>
  /\ rec_prov = <<>>
  /\ frag_prov = NoProv
  /\ doc_norm = <<>>
  /\ skipped = {}
  /\ skipped_alt = {}
  /\ last = NoStep
  /\ output = <<>>
  /\ skip_call = NoCall
  /\ mode = "sample"
  /\ budget = 0
  /\ run = 1
  /\ doc = <<>>
  /\ first_output = <<>>
  /\ fn_call = NoFn

\* SecondCall with the locals of the first call still in place
SecondCall_KeepsLocals ==
  /\ pc = "done"
  /\ run = 1
  /\ run' = 2
  /\ first_output' = output
  /\ pc' = "walk"
  /\ page_index' = 0
  /\ output' = <<>>
  /\ budget' = IF mode = "small" THEN MaxChars ELSE 0
  /\ UNCHANGED <<cfg, total_pages, mode, doc, skip_call, fn_call,
                 carryover_fragment, carryover_page, records, rec_prov,
                 frag_prov, doc_norm, skipped, skipped_alt, last>>

\* the function is called again: fitz.open, and the locals are set anew
SecondCall ==
  /\ pc = "done"
  /\ run = 1
  /\ run' = 2
  /\ first_output' = output
  /\ pc' = "walk"
  /\ page_index' = 0
  /\ carryover_fragment' = <<>>
  /\ carryover_page' = None
  /\ records' = <<>>
  /\ rec_prov' = <<>>
  /\ frag_prov' = NoProv
  /\ doc_norm' = <<>>
  /\ skipped' = {}
  /\ skipped_alt' = {}
  /\ last' = NoStep
  /\ output' = <<>>
  /\ budget' = IF mode = "small" THEN MaxChars ELSE 0
  /\ UNCHANGED <<cfg, total_pages, mode, doc, skip_call, fn_call>>

NextTwice == SkipPage \/ IncludePage \/ Finish \/ SecondCall

SpecTwice == InitTwice /\ [][NextTwice]_vars

(***************************************************************************)
(* should_skip_page on its own: one call on a page and a configuration.    *)
(***************************************************************************)
SkipTexts ==
  { <<>>,
    <<" ", "\n">>,
    <<"a">>,
    <<" ", "a", "b", "\n">>,
    <<"a", " ", "b", ".">>,
    <<"UD45C", " ", "1">>,
    <<"UD45C", "x", "1", " ", "T", "a", "b", "l", "e">>,
    <<"t", "A", "b", "L", "e", "\n", "2", "3", " ", "4">>,
    <<"F", "i", "g", "u", "r", "e", "1", "UD45C", "2">>,
    <<"UD45C", " ", "1", " ", "UD45C", " ", "2", " ", "UD45C", " ", "3">>,
    <<"UD45C", " ", "1", " ", "UD45C", "2", " ", "T", "a", "b", "l", "e", " ", "3">> }

SkipPages == {MkPage(t, l) : t \in SkipTexts, l \in AllLayouts}

SkipConfigs ==
  [skip_pages : {{}, {1}},
   min_text_len : {0, 2, 4},
   table_threshold : {0, 1, 3},
   skip_if_image : BOOLEAN,
   min_text_ratio : {0, 5, 50},
   remove_header_footer : BOOLEAN,
   header_height_ratio : {0, 5},
   footer_height_ratio : {5}]

InitSkip ==
  /\ cfg \in SkipConfigs
  /\ total_pages = MaxPages
  /\ pc = "walk"
  /\ page_index = 0
  /\ carryover_fragment = <<>>
  /\ carryover_page = None
  /\ records = <<>>
  /\ rec_prov = <<>>
  /\ frag_prov = NoProv
  /\ doc_norm = <<>>
  /\ skipped = {}
  /\ skipped_alt = {}
  /\ last = NoStep
  /\ output = <<>>
  /\ skip_call = NoCall
  /\ mode = "sample"
  /\ budget = 0
  /\ run = 0
  /\ doc = <<>>
  /\ first_output = <<>>
  /\ fn_call = NoFn

CallShouldSkip ==
  /\ ~skip_call.called
  /\ \E page \in SkipPages, page_num \in 1..MaxPages :
       skip_call' = [called |-> TRUE, page |-> page, page_num |-> page_num,
                     check |-> SkipReturn(page, page_num, cfg),
                     result |-> SkipDecision(page, page_num, cfg)]
  /\ UNCHANGED <<cfg, total_pages, pc, page_index, carryover_fragment,
                 carryover_page, records, rec_prov, frag_prov, doc_norm, skipped,
                 skipped_alt, last, output, mode, budget, run, doc, first_output,
                 fn_call>>

NextSkip == CallShouldSkip

SpecSkip == InitSkip /\ [][NextSkip]_vars

(***************************************************************************)
(* The helper functions on their own: one call of normalize_line_breaks,   *)
(* split_into_sentences, parse_skip_pages or                               *)
(* compute_text_block_area_ratio on an argument.                           *)
(***************************************************************************)
Text(alphabet, n) == UNION {[1..k -> alphabet] : k \in 0..n}

\* raw page texts: all short ones, and longer ones with hyphenated lines,
\* blank lines, lines with whitespace around them, the terminal characters
NormTexts ==
  Text({"a", ".", "-", " ", "\n"}, MaxChars) \cup
  { <<"L", "i", "n", "e", " ", "o", "n", "e", "-", "\n",
      "L", "i", "n", "e", " ", "t", "w", "o", ".">>,
    <<"a", "-", " ", "\n", " ", "b", "\n", "\n", "c", ".", " ", "\n", "d">>,
    <<"a", "!", "\r", "\n", "b", "?", "\n", "-", "\n", "c", "U2026">>,
    <<" ", "a", " ", "b", " ", "\n", "\t", "\n", "c", "U3002", "\n", "d", "UFF1F",
      "\n", "e", "UFF01", "\n", "f", "-", "-">>,
    <<"a", ".", "b", "\n", "c", "-", "d", "\n", "e", ".", " ", "f">> }

\* texts to split: all short ones, and longer ones with several sentences,
\* terminal characters inside words, runs of whitespace
SplitTexts ==
  Text({"a", ".", "?", " ", "\n"}, MaxChars) \cup
  { <<"a", ".", "b", ".", " ", "a">>,
    <<"a", ".", " ", "\n", " ", "b", "!", "\n", "c", "?", "d", " ", "e">>,
    <<" ", ".", " ", ".", " ", " ", "a", "U2026", " ", "b", "U3002", "c", "UFF1F",
      "\t", "d", "UFF01", "\n">>,
    <<"a", " ", "b", " ", ".", " ", "c", " ", ".">>,
    <<"1", ".", "5", " ", "a", ".", " ", "b", ".", ".", ".", " ", "c">> }

\* skip page strings: all short ones, and longer ones with several tokens
SkipStrings ==
  Text({"1", "2", ",", "-", " ", "x"}, MaxChars) \cup
  { <<"1", ",", "2", ",", "5", "-", "7">>,
    <<"1", ",", "2", ",", "5", "-", "7", ",", "1", "0">>,
    <<"7", "-", "5", ",", "x", "-", "1", ",", ",", "3", ",", "1", "-", "2">>,
    <<" ", "1", " ", "-", " ", "3", " ", ",", " ", "x", ",", " ", "5", " ">>,
    <<"1", "-", "2", "-", "3", ",", "4">>,
    <<"5", "-", ",", "-", "5", ",", "6">>,
    <<"1", "-", "-", "3", ",", "2">>,
    <<"1", " ", "2", ",", "3">>,
    <<"0", "9", "-", "1", "1">>,
    <<"2", "-", "2", ",", "1", "x", ",", "4", "-", "x", ",", "8">> }

\* blocks for the area ratio: text and image blocks at the top, across the
\* header limit, in the body, across the footer limit and at the bottom of a
\* page of height 100, a block without extent, blocks without 'bbox' or 'type'
RatioBlocks ==
  {[has_bbox |-> TRUE, bbox |-> <<0, y[1], 10, y[2]>>, type |-> t, lines |-> <<>>] :
     y \in {<<0, 4>>, <<0, 5>>, <<4, 6>>, <<10, 90>>, <<94, 96>>, <<95, 100>>,
            <<96, 100>>, <<50, 50>>},
     t \in {0, 1, -1}}
    \cup {[has_bbox |-> FALSE, bbox |-> <<0, 10, 10, 90>>, type |-> t, lines |-> <<>>] :
            t \in {0, -1}}

RatioPages ==
  {[text |-> <<>>, width |-> w, height |-> h, images |-> 0, blocks |-> bs] :
     w \in {0, 10}, h \in {0, 100},
     bs \in {<<b>> : b \in RatioBlocks}
            \cup {<<b1, b2>> : b1 \in RatioBlocks, b2 \in RatioBlocks}
            \cup {<<b1, b2, TextBlock(<<0, 10, 10, 90>>, <<>>)>> :
                    b1 \in {b \in RatioBlocks : ~b.has_bbox}, b2 \in RatioBlocks}}

RatioArgs ==
  [page : RatioPages, header_height_ratio : {0, 5, 50},
   footer_height_ratio : {0, 5}]

InitFn ==
  /\ cfg = CHOOSE c \in Configs :
              c.skip_pages = {} /\ c.table_threshold = 3 /\ ~c.remove_header_footer
  /\ total_pages = MaxPages
  /\ pc = "walk"
  /\ page_index = 0
  /\ carryover_fragment = <<>>
  /\ carryover_page = None
  /\ records = <<>>
  /\ rec_prov = <<>>
  /\ frag_prov = NoProv
  /\ doc_norm = <<>>
  /\ skipped = {}
  /\ skipped_alt = {}
  /\ last = NoStep
  /\ output = <<>>
  /\ skip_call = NoCall
  /\ mode = "sample"
  /\ budget = 0
  /\ run = 0
  /\ doc = <<>>
  /\ first_output = <<>>
  /\ fn_call = NoFn

Returns(fn, arg, result, pages) ==
  /\ fn_call.fn = "none"
  /\ fn_call' = [fn |-> fn, arg |-> arg, result |-> result, pages |-> pages]
  /\ UNCHANGED <<cfg, total_pages, pc, page_index, carryover_fragment,
                 carryover_page, records, rec_prov, frag_prov, doc_norm, skipped,
                 skipped_alt, last, output, skip_call, mode, budget, run, doc,
                 first_output>>

CallNormalize ==
  \E text \in NormTexts :
    Returns("normalize_line_breaks", text, normalize_line_breaks(text), {})

CallSplit ==
  \E text \in SplitTexts :
    Returns("split_into_sentences", text, split_into_sentences(text), {})

CallParse ==
  \E skip_str \in SkipStrings :
    Returns("parse_skip_pages", skip_str, <<>>, parse_skip_pages(skip_str))

CallRatio ==
  \E a \in RatioArgs :
    Returns("compute_text_block_area_ratio", a,
            compute_text_block_area_ratio(a.page, a.header_height_ratio,
                                          a.footer_height_ratio), {})

NextFn == CallNormalize \/ CallSplit \/ CallParse \/ CallRatio

SpecFn == InitFn /\ [][NextFn]_vars

TypeOK ==
  /\ pc \in {"walk", "done"}
  /\ page_index \in 0..total_pages
  /\ Len(rec_prov) = Len(records)
  /\ mode \in {"small", "sample"}
  /\ budget \in 0..MaxChars
  /\ run \in 0..2
  /\ Len(doc) <= total_pages

(***************************************************************************)
(* Vocabulary of the properties.                                           *)
(***************************************************************************)
\* the words of a text: its maximal runs of non-whitespace characters
RECURSIVE WordsFrom(_, _)
WordsFrom(s, i) ==
  IF i > Len(s) THEN <<>>
  ELSE IF s[i] \in Whitespace THEN WordsFrom(s, i + 1)
  ELSE LET stops == {j \in i..Len(s) : s[j] \in Whitespace}
           hi == IF stops = {} THEN Len(s) ELSE SetMin(stops) - 1
       IN <<SubSeq(s, i, hi)>> \o WordsFrom(s, hi + 1)

Words(s) == WordsFrom(s, 1)

\* " ".join(texts)
RECURSIVE JoinSp(_)
JoinSp(texts) ==
  IF texts = <<>> THEN <<>>
  ELSE IF Len(texts) = 1 THEN texts[1]
  ELSE texts[1] \o <<" ">> \o JoinSp(Tail(texts))

Sentences(recs) == [k \in 1..Len(recs) |-> recs[k].sentence]

\* the latest included page before page q, None if there is none
PrevIncluded(q) ==
  LET inc == {p \in 1..(q - 1) : p \notin skipped}
  IN IF inc = {} THEN None ELSE SetMax(inc)

(***************************************************************************)
(* Properties of the page walk.                                            *)
(***************************************************************************)
\* C1: when the page before Q (the latest included one, P) left a pending
\* piece that began on P and Q's text completes it, the sentence that begins
\* with that piece is recorded with page P and every other sentence written
\* in the step of Q with page Q.
C1_WrappedSentenceKeepsItsStartPage ==
  \A k \in 1..Len(records) :
    LET r == rec_prov[k] IN
    (r.carried_from # None /\ r.carried_from = PrevIncluded(r.at))
      => records[k].page_num = (IF r.from_carry THEN r.carried_from ELSE r.at)

\* C2: fragment-closure law: a record written in the step of page Q has a
\* page earlier than Q exactly if its sentence begins with the piece carried
\* into that step, and then its page is the page that piece began on.
C2_FragmentClosureLaw ==
  \A k \in 1..Len(records) :
    LET r == rec_prov[k] IN
    /\ (records[k].page_num < r.at) <=> r.from_carry
    /\ (records[k].page_num < r.at) => records[k].page_num = r.first

\* C3: a step that skips a page changes neither the pending piece, nor its
\* page, nor the records; and the step of an included page hands the piece
\* that was pending, followed by a space, to the sentence splitter in front
\* of the page's text.
C3_SkippedPageLeavesStateUntouched ==
  [][ /\ (skipped' # skipped) =>
           /\ carryover_fragment' = carryover_fragment
           /\ carryover_page' = carryover_page
           /\ records' = records
      /\ (page_index' # page_index /\ last'.kind = "include"
            /\ carryover_fragment # <<>>) =>
           startswith(last'.merged, carryover_fragment \o <<" ">>) ]_vars

\* C3 witness: an included page consumed a pending piece right after a
\* skipped page.
C3_Witness ==
  /\ last.kind = "include"
  /\ last.consumed
  /\ (last.page_num - 1) \in skipped

\* C4: a page of the force-skip set is the page of no record, the step of no
\* record, a source of the text of no record and of the pending piece, and
\* not the page of the pending piece.
C4_ForceSkippedPageLeavesNoTrace ==
  \A p \in cfg.skip_pages :
    /\ \A k \in 1..Len(records) :
         /\ records[k].page_num # p
         /\ rec_prov[k].at # p
         /\ p \notin rec_prov[k].srcs
    /\ p \notin frag_prov.srcs
    /\ carryover_page # p

\* C4 witness: a sentence that began before a force-skipped page was
\* completed after it.
C4_Witness ==
  \E p \in cfg.skip_pages : \E k \in 1..Len(records) :
    /\ rec_prov[k].from_carry
    /\ rec_prov[k].first < p
    /\ p < rec_prov[k].at

\* C5: text conservation: after every step, the words of the records, in
\* order, followed by the words of the pending piece, are the words of the
\* normalized texts of the included pages, in order: each word once.
C5_TextConservation ==
  Words(JoinSp(Sentences(records))) \o Words(carryover_fragment)
    = Words(JoinSp(doc_norm))

\* C5 witness: records and a pending piece, after two included pages and a
\* skipped one.
C5_Witness ==
  /\ Len(records) >= 2
  /\ carryover_fragment # <<>>
  /\ Len(doc_norm) >= 2
  /\ skipped # {}

\* C6 as stated: without skipped pages the sentences joined by single spaces
\* are the normalized text of the document (the page texts one after the
\* other, or joined by spaces) up to the pending piece at its end.
LiteralRoundTrip(whole) ==
  LET emitted == JoinSp(Sentences(output))
  IN /\ startswith(whole, emitted)
     /\ strip(SubSeq(whole, Len(emitted) + 1, Len(whole))) = carryover_fragment

C6_RoundTripVerbatim ==
  (pc = "done" /\ skipped = {}) =>
    (LiteralRoundTrip(Concat(doc_norm)) \/ LiteralRoundTrip(JoinSp(doc_norm)))

\* C6 as amended: without skipped pages, the sentences joined by single
\* spaces, then the pending piece, are the normalized page texts joined by
\* single spaces, once every run of whitespace is read as one space and
\* whitespace at the ends is dropped.
Collapse(s) == JoinSp(Words(s))

C6_RoundTripUpToWhitespace ==
  (pc = "done" /\ skipped = {}) =>
    Collapse(JoinSp(Sentences(output) \o
                    (IF carryover_fragment = <<>> THEN <<>>
                     ELSE <<carryover_fragment>>)))
      = Collapse(JoinSp(doc_norm))

\* C6 witness: a finished walk without skipped pages, with sentences from
\* several pages and a piece left pending.
C6_Witness ==
  /\ pc = "done"
  /\ skipped = {}
  /\ Len(doc_norm) >= 2
  /\ Len(output) >= 2
  /\ carryover_fragment # <<>>

\* C7: terminal drop: when the walk has returned, the output holds the words
\* of the included pages except exactly the words of the piece still
\* pending, which are the last ones; the pending piece is no record.
C7_TerminalDrop ==
  pc = "done" =>
    LET all == Words(JoinSp(doc_norm))
        out == Words(JoinSp(Sentences(output)))
        pend == Words(carryover_fragment)
    IN /\ Len(out) + Len(pend) = Len(all)
       /\ out = SubSeq(all, 1, Len(out))
       /\ pend = SubSeq(all, Len(out) + 1, Len(all))
       /\ Len(output) = Len(records)

\* C7 witness: the walk returned with sentences written and a piece pending.
C7_Witness ==
  /\ pc = "done"
  /\ carryover_fragment # <<>>
  /\ output # <<>>

\* C9: the pages skipped are the pages that would be skipped with
\* remove_header_footer negated.
C9_SkipIndependentOfExtractionMode == skipped = skipped_alt

\* C9 witness: with header/footer removal on, a page was skipped by the text
\* length check or by the area ratio check and another page was kept.
C9_Witness ==
  /\ cfg.remove_header_footer
  /\ last.kind = "skip"
  /\ last.check \in {2, 5}
  /\ page_index > Cardinality(skipped)

\* C10: the pages of the records never decrease along the record sequence.
C10_RecordPagesNeverDecrease ==
  \A k \in 1..(Len(records) - 1) : records[k].page_num <= records[k + 1].page_num

\* C15: a pending piece has, as its page, the page on which its first
\* character occurred; so a piece that starts on the page that completed the
\* piece carried in has this page, not the page of the piece carried in.
C15_FragmentPageIsFirstCharacterPage ==
  carryover_fragment # <<>> => carryover_page = frag_prov.first

\* C16: the step of an included page whose text is empty (also after the
\* normalization) writes no record, leaves the pending piece and its page as
\* they were, and the walk goes on to the next page.
C16_EmptyPageChangesNothing ==
  [][ (/\ last'.kind = "include"
       /\ page_index' = page_index + 1
       /\ doc_norm' = Append(doc_norm, <<>>)) =>
        /\ records' = records
        /\ carryover_fragment' = carryover_fragment
        /\ carryover_page' = carryover_page
        /\ pc' = "walk" ]_vars

\* C16 witness: with header/footer removal on, an included page without
\* retained text was walked while a piece was pending.
C16_Witness ==
  /\ cfg.remove_header_footer
  /\ last.kind = "include"
  /\ last.consumed
  /\ doc_norm # <<>>
  /\ doc_norm[Len(doc_norm)] = <<>>
  /\ carryover_fragment # <<>>

\* C18: every sentence written is non-empty and ends with a terminal
\* character; a piece without one is held as the pending piece only.
C18_RecordsEndWithTerminal ==
  \A k \in 1..Len(records) :
    /\ records[k].sentence # <<>>
    /\ records[k].sentence[Len(records[k].sentence)] \in Terminals

\* C18 witness: the step of a page that consumed a pending piece wrote
\* sentences and left a new piece pending.
C18_Witness ==
  /\ last.kind = "include"
  /\ last.consumed
  /\ Len(records) >= 2
  /\ rec_prov[Len(records)].at = last.page_num
  /\ carryover_fragment # <<>>

\* C19: between two iterations of the page loop the pending piece is
\* non-empty exactly if its page is set; a pending piece is trimmed, does not
\* end with a terminal character, and its page is the number of an included
\* page among the pages processed.
C19_FragmentAndPageSetTogether ==
  /\ (carryover_fragment # <<>>) <=> (carryover_page # None)
  /\ carryover_fragment # <<>> =>
        /\ strip(carryover_fragment) = carryover_fragment
        /\ carryover_fragment[Len(carryover_fragment)] \notin Terminals
        /\ carryover_page \in 1..page_index
        /\ carryover_page \notin skipped

\* C19 witness: a piece from an earlier page is pending after a skipped page.
C19_Witness ==
  /\ carryover_fragment # <<>>
  /\ carryover_page < page_index
  /\ page_index \in skipped

\* C20: with table_threshold <= 0 every page is skipped, by the caption
\* check unless an earlier check matches, and no record is written.
C20_ZeroThresholdSkipsEveryPage ==
  cfg.table_threshold <= 0 =>
    /\ skipped = 1..page_index
    /\ last.kind # "include"
    /\ last.kind = "skip" => last.check \in {1, 2, 3}
    /\ records = <<>>
    /\ carryover_fragment = <<>>
    /\ output = <<>>

\* C20 witness: at table_threshold 0 the walk of several pages has returned
\* without a record, the last page skipped by the caption check although its
\* text has no caption.
C20_Witness ==
  /\ cfg.table_threshold = 0
  /\ pc = "done"
  /\ page_index >= 2
  /\ last.check = 3
  /\ output = <<>>

(***************************************************************************)
(* Properties of should_skip_page.  The five checks are restated from the  *)
(* patterns and the geometry, without the scanning order of the matcher.   *)
(***************************************************************************)
CasePairs ==
  {<<"t", "T">>, <<"a", "A">>, <<"b", "B">>, <<"l", "L">>, <<"e", "E">>,
   <<"f", "F">>, <<"i", "I">>, <<"g", "G">>, <<"u", "U">>, <<"r", "R">>}

\* word (in lower case) stands at position i of text, in any case if anycase
StandsAt(text, i, word, anycase) ==
  /\ i + Len(word) - 1 <= Len(text)
  /\ \A k \in 1..Len(word) :
       \/ text[i + k - 1] = word[k]
       \/ anycase /\ <<word[k], text[i + k - 1]>> \in CasePairs

\* a caption "<word> <digits>" starts at position i: the word, any whitespace,
\* a digit
CaptionAt(text, i, word, anycase) ==
  /\ StandsAt(text, i, word, anycase)
  /\ \E d \in (i + Len(word))..Len(text) :
       /\ text[d] \in Digits
       /\ \A j \in (i + Len(word))..(d - 1) : text[j] \in Whitespace

CaptionCount(text) ==
  Cardinality({i \in 1..Len(text) : CaptionAt(text, i, <<"UD45C">>, FALSE)})
    + Cardinality({i \in 1..Len(text) :
                     \/ CaptionAt(text, i, <<"t", "a", "b", "l", "e">>, TRUE)
                     \/ CaptionAt(text, i, <<"f", "i", "g", "u", "r", "e">>, TRUE)})

\* the area of the text blocks with a bounding box that lie neither entirely
\* above height * header / 100 nor entirely below height * (100 - footer) / 100
RECURSIVE RetainedTextArea(_, _, _, _)
RetainedTextArea(page, k, header, footer) ==
  IF k > Len(page.blocks) THEN 0
  ELSE LET b == page.blocks[k]
           retained == /\ b.has_bbox
                       /\ b.type = 0
                       /\ 100 * b.bbox[4] >= page.height * header
                       /\ 100 * b.bbox[2] <= page.height * (100 - footer)
       IN (IF retained
           THEN Max0(0, b.bbox[3] - b.bbox[1]) * Max0(0, b.bbox[4] - b.bbox[2])
           ELSE 0) + RetainedTextArea(page, k + 1, header, footer)

\* the five checks, in the order of the source
CheckMatches(page, page_num, c) ==
  LET area == page.width * page.height
  IN << page_num \in c.skip_pages,
        Len(strip(page.text)) < c.min_text_len,
        CaptionCount(page.text) >= c.table_threshold,
        c.skip_if_image /\ page.images >= 1,
        IF area <= 0 THEN 0 < c.min_text_ratio
        ELSE 100 * RetainedTextArea(page, 1, c.header_height_ratio,
                                    c.footer_height_ratio)
               < c.min_text_ratio * area >>

\* C8: should_skip_page returns true exactly when one of the five checks
\* matches, and it returns from the first check that matches.
C8_SkipIffSomeCheckMatches ==
  skip_call.called =>
    LET m == CheckMatches(skip_call.page, skip_call.page_num, cfg)
        hits == {k \in 1..5 : m[k]}
    IN /\ skip_call.result = (hits # {})
       /\ skip_call.check = (IF hits = {} THEN 0 ELSE SetMin(hits))

\* C8 witness: a page with three caption matches is skipped by the caption
\* check at table_threshold 3.
C8_Witness ==
  /\ skip_call.called
  /\ skip_call.result
  /\ skip_call.check = 3
  /\ cfg.table_threshold = 3
  /\ CaptionCount(skip_call.page.text) = 3

LinePiece(line) ==
  IF line[Len(line)] = "-" THEN SubSeq(line, 1, Len(line) - 1)
  ELSE IF line[Len(line)] \notin Terminals THEN line \o <<" ">>
  ELSE line \o <<"\n">>

\* the pieces of the lines that are not blank, one after the other
NormalizedLines(lines) ==
  LET NotBlank(line) == strip(line) # <<>>
      rest == SelectSeq(lines, NotBlank)
  IN Concat([k \in 1..Len(rest) |-> LinePiece(rest[k])])

ExampleText ==
  <<"L", "i", "n", "e", " ", "o", "n", "e", "-", "\n",
    "L", "i", "n", "e", " ", "t", "w", "o", ".">>

ExampleSentence ==
  <<"L", "i", "n", "e", " ", "o", "n", "e", "L", "i", "n", "e", " ", "t", "w", "o", ".">>

\* the example: 'Line one-' and 'Line two.' become one sentence
ExampleHolds ==
  fn_call.arg = ExampleText =>
    /\ fn_call.result = ExampleSentence \o <<"\n">>
    /\ split_into_sentences(fn_call.result) = <<ExampleSentence>>

\* C11 as stated: the lines, top to bottom, blank ones skipped, each as it
\* stands in the text: without its final hyphen, or followed by a space, or
\* followed by a newline if it ends with a terminal character.
C11_NormalizeLinesAsTheyStand ==
  fn_call.fn = "normalize_line_breaks" =>
    /\ fn_call.result = NormalizedLines(splitlines(fn_call.arg))
    /\ ExampleHolds

\* C11 as amended: the same of the lines trimmed of the whitespace around
\* them.
C11_NormalizeTrimmedLines ==
  fn_call.fn = "normalize_line_breaks" =>
    LET lines == splitlines(fn_call.arg)
    IN /\ fn_call.result = NormalizedLines([k \in 1..Len(lines) |-> strip(lines[k])])
       /\ ExampleHolds

\* C11 witness: a text with a blank line and with whitespace after the hyphen
\* that ends a line.
C11_Witness ==
  /\ fn_call.fn = "normalize_line_breaks"
  /\ LET lines == splitlines(fn_call.arg)
     IN /\ \E k \in 1..Len(lines) : strip(lines[k]) = <<>>
        /\ \E k \in 1..Len(lines) :
             LET t == strip(lines[k])
             IN t # <<>> /\ t # lines[k] /\ t[Len(t)] = "-"
  /\ fn_call.result # <<>>

\* the positions of text after which it is cut: a terminal character that
\* whitespace follows
Cuts(text) ==
  {i \in 1..(Len(text) - 1) : text[i] \in Terminals /\ text[i + 1] \in Whitespace}

\* the pieces between the cuts from position i on, trimmed, empty ones dropped
RECURSIVE PiecesFrom(_, _)
PiecesFrom(text, i) ==
  IF i > Len(text) THEN <<>>
  ELSE LET later == {c \in Cuts(text) : c >= i}
           hi == IF later = {} THEN Len(text) ELSE SetMin(later)
           piece == strip(SubSeq(text, i, hi))
       IN (IF piece = <<>> THEN <<>> ELSE <<piece>>) \o PiecesFrom(text, hi + 1)

Tokens(str) ==
  {t \in (1..(Len(str) + 1)) \X (0..Len(str)) :
     /\ t[1] <= t[2] + 1
     /\ t[1] = 1 \/ str[t[1] - 1] = ","
     /\ t[2] = Len(str) \/ str[t[2] + 1] = ","
     /\ \A i \in t[1]..t[2] : str[i] # ","}

\* str is a number: decimal digits, with whitespace around them at most
IsNumber(str) ==
  LET t == strip(str)
  IN t # <<>> /\ \A i \in 1..Len(t) : t[i] \in Digits

NumberOf(str) == DecimalValue(strip(str))

\* the pages a token stands for: n for a number, lo..hi for two numbers with
\* a hyphen between them, nothing for anything else
TokenPages(tok) ==
  IF IsNumber(tok) THEN {NumberOf(tok)}
  ELSE UNION {NumberOf(SubSeq(tok, 1, h - 1))..NumberOf(SubSeq(tok, h + 1, Len(tok))) :
                h \in {i \in 1..Len(tok) :
                         /\ tok[i] = "-"
                         /\ IsNumber(SubSeq(tok, 1, i - 1))
                         /\ IsNumber(SubSeq(tok, i + 1, Len(tok)))}}

\* C14: the set returned is the union of the pages the tokens stand for; an
\* empty token, a malformed one and a range with lo > hi add nothing.
C14_ParseIsUnionOverTokens ==
  fn_call.fn = "parse_skip_pages" =>
    fn_call.pages =
      UNION {TokenPages(SubSeq(fn_call.arg, t[1], t[2])) : t \in Tokens(fn_call.arg)}

\* C14 witness: pages are returned for tokens that follow a range with
\* lo > hi, a malformed token and an empty token.
C14_Witness ==
  /\ fn_call.fn = "parse_skip_pages"
  /\ fn_call.arg = <<"7", "-", "5", ",", "x", "-", "1", ",", ",", "3", ",", "1", "-", "2">>
  /\ fn_call.pages = {1, 2, 3}

\* C17: the ratio is 0 for a page whose area is not positive; otherwise it is
\* the area of the retained text blocks (those with a bounding box that lie
\* neither entirely above the header limit nor entirely below the footer
\* limit) over the area of the page.
C17_RatioOfRetainedTextBlocks ==
  fn_call.fn = "compute_text_block_area_ratio" =>
    LET a == fn_call.arg
        area == a.page.width * a.page.height
    IN /\ fn_call.result[2] > 0
       /\ area <= 0 => fn_call.result[1] = 0
       /\ area > 0 =>
            fn_call.result[1] * area
              = RetainedTextArea(a.page, 1, a.header_height_ratio,
                                 a.footer_height_ratio) * fn_call.result[2]

\* C17 witness: a positive ratio for a page with a block without a bounding
\* box and a text block that lies entirely above the header limit.
C17_Witness ==
  /\ fn_call.fn = "compute_text_block_area_ratio"
  /\ fn_call.result[1] > 0
  /\ \E k \in 1..Len(fn_call.arg.page.blocks) : ~fn_call.arg.page.blocks[k].has_bbox
  /\ \E k \in 1..Len(fn_call.arg.page.blocks) :
       LET b == fn_call.arg.page.blocks[k]
       IN /\ b.has_bbox
          /\ b.type = 0
          /\ 100 * b.bbox[4] < fn_call.arg.page.height * fn_call.arg.header_height_ratio

====
